---- MODULE Spec2Model ----
(***************************************************************************)
(* Model of the memo application: the record model (src/src/memo.ts), the  *)
(* file storage adapter and the command interface (src/src/storage.ts).   *)
(*                                                                         *)
(* Spec      one client at a time: every storage call and every command   *)
(*           is one step.                                                  *)
(* FaultSpec the storage calls on a file system whose calls can fail.     *)
(* CliSpec   one run of main after the other, file system calls can fail. *)
(* SortSpec  sortMemosByDate on arrays of memos.                          *)
(* ConcSpec  two processes on the same file: every storage call is a read *)
(*           of the file followed, in a later step, by a write.           *)
(* RaceSpec  four commands on the same file: update and delete are a      *)
(*           getMemo followed, in a later step, by the storage call.      *)
(***************************************************************************)
EXTENDS Integers, Sequences, FiniteSets, TLC

VARIABLES
    file,     \* the document <dataDir>/<fileName>
    now,      \* the wall clock, in milliseconds
    made,     \* every memo createMemo has returned, in order
    last,     \* the last call of the client: its name, what it returned, its error
    procs     \* ConcSpec: the state of each concurrent process

vars == <<file, now, made, last, procs>>

----------------------------------------------------------------------------
(* Bounds *)

MaxMemos   == 2      \* addMemo is not called on a longer collection
MaxTicks   == 1      \* the clock advances at most this far
MaxCreated == 2      \* createMemo is called at most this often
MaxSorted  == 3      \* sortMemosByDate is not called on a longer array

\* the clock at the start (ms): the next tick rolls the second and the minute over
StartTime == 60 * 1000 - 1

MaxTime == StartTime + MaxTicks

----------------------------------------------------------------------------
(* Values *)

Undefined == "undefined"        \* the JavaScript value undefined
Suffixes  == {"k3x9a2b", "p0q7zz1"}   \* values of the random suffix of an id

\* `memo_${Date.now()}_${Math.random().toString(36).substring(2, 9)}`
generateId(t, r) == [ms |-> t, sfx |-> r]

\* the id the tests use for a memo that was never created
NonexistentId == [ms |-> 0, sfx |-> "nonexistent"]

\* the inputs of createMemo the clients use
CreateInputs == { [title |-> "T", content |-> "C", tags |-> <<"a">>] }

\* An UpdateMemoInput: each of title, content, tags is given (<<v>>) or not (<<>>).
UpdateInputs ==
    { [title |-> <<>>,     content |-> <<>>,     tags |-> <<>>],
      [title |-> <<"T2">>, content |-> <<>>,     tags |-> <<>>],
      [title |-> <<>>,     content |-> <<"C2">>, tags |-> <<>>],
      [title |-> <<"T2">>, content |-> <<"C2">>, tags |-> << <<"b">> >>] }

----------------------------------------------------------------------------
(* Record model: src/src/memo.ts *)

\* createMemo: `now` is read first (new Date()), the id's time after it.
createMemo(input, t, idTime, r) ==
    [id        |-> generateId(idTime, r),
     title     |-> input.title,
     content   |-> input.content,
     tags      |-> input.tags,
     createdAt |-> t,
     updatedAt |-> t]

\* a mutant of updateMemo: fields that are not given are reset
updateMemoResetting(memo, updates, t) ==
    [id        |-> memo.id,
     title     |-> IF updates.title # <<>> THEN updates.title[1] ELSE memo.title,
     content   |-> IF updates.content # <<>> THEN updates.content[1] ELSE memo.content,
     tags      |-> IF updates.tags # <<>> THEN updates.tags[1] ELSE <<>>,
     createdAt |-> memo.createdAt,
     updatedAt |-> t]

\* a mutant of updateMemo: createdAt is stamped again
updateMemoRestamping(memo, updates, t) ==
    [id        |-> memo.id,
     title     |-> IF updates.title # <<>> THEN updates.title[1] ELSE memo.title,
     content   |-> IF updates.content # <<>> THEN updates.content[1] ELSE memo.content,
     tags      |-> IF updates.tags # <<>> THEN updates.tags[1] ELSE memo.tags,
     createdAt |-> t,
     updatedAt |-> t]

\* updateMemo: { ...memo, ...updates, updatedAt: new Date() }
updateMemo(memo, updates, t) ==
    [id        |-> memo.id,
     title     |-> IF updates.title # <<>> THEN updates.title[1] ELSE memo.title,
     content   |-> IF updates.content # <<>> THEN updates.content[1] ELSE memo.content,
     tags      |-> IF updates.tags # <<>> THEN updates.tags[1] ELSE memo.tags,
     createdAt |-> memo.createdAt,
     updatedAt |-> t]

----------------------------------------------------------------------------
(* Dates and JSON: JSON.stringify and JSON.parse as loadMemos/saveMemos use them *)

\* a mutant of toISOString: the milliseconds are dropped
ToISOStringSeconds(t) == [min |-> t \div (60 * 1000), sec |-> (t \div 1000) % 60, msec |-> 0]

\* Date.prototype.toJSON: the ISO-8601 text, here its minute, second and
\* millisecond fields (the calendar fields above the minute are kept as minutes)
ToISOString(t) == [min |-> t \div (60 * 1000), sec |-> (t \div 1000) % 60, msec |-> t % 1000]

\* new Date(isoString).getTime()
DateParse(s) == s.min * (60 * 1000) + s.sec * 1000 + s.msec

\* JSON.stringify of one memo: a property whose value is undefined is left
\* out, a Date becomes its ISO string
StringifyMemo(m) ==
    LET keys == {"id", "tags", "createdAt", "updatedAt"}
                  \cup (IF m.title # Undefined THEN {"title"} ELSE {})
                  \cup (IF m.content # Undefined THEN {"content"} ELSE {})
    IN  [k \in keys |->
            CASE k = "id"        -> m.id
              [] k = "title"     -> m.title
              [] k = "content"   -> m.content
              [] k = "tags"      -> m.tags
              [] k = "createdAt" -> ToISOString(m.createdAt)
              [] k = "updatedAt" -> ToISOString(m.updatedAt)]

\* JSON.parse of one element followed by the map of loadMemos: reading a
\* property the element lacks gives undefined
ParseMemo(j) ==
    [id        |-> j["id"],
     title     |-> IF "title" \in DOMAIN j THEN j["title"] ELSE Undefined,
     content   |-> IF "content" \in DOMAIN j THEN j["content"] ELSE Undefined,
     tags      |-> j["tags"],
     createdAt |-> DateParse(j["createdAt"]),
     updatedAt |-> DateParse(j["updatedAt"])]

Stringify(memos) == [i \in 1..Len(memos) |-> StringifyMemo(memos[i])]
ParseDoc(doc)    == [i \in 1..Len(doc) |-> ParseMemo(doc[i])]

----------------------------------------------------------------------------
(* The file system *)

Absent      == [kind |-> "absent", doc |-> <<>>]
Garbage     == [kind |-> "garbage", doc |-> <<>>]   \* a truncated write: no valid JSON
JsonFile(d) == [kind |-> "json", doc |-> d]

ReadOutcomes  == {"ok", "eio"}               \* fs.readFile succeeds or fails
WriteOutcomes == {"ok", "denied", "partial"} \* fs.writeFile: done, refused, cut short

\* fs.writeFile(path, data): the file after it
writeFile(f, d, w) ==
    CASE w = "ok"      -> JsonFile(d)
      [] w = "denied"  -> f
      [] w = "partial" -> Garbage

----------------------------------------------------------------------------
(* Storage adapter: class MemoStorage of src/src/storage.ts.  Each operator *)
(* gives the file after the call, what the call returned ("throw" when it   *)
(* rejected), which error it threw and the memos it returned.               *)

Result(f, ret, err, out) == [file |-> f, ret |-> ret, err |-> err, out |-> out]

\* a mutant of init: the empty array is written whether or not the file exists
MemoStorage_initOverwriting(f, w) ==
    IF w = "ok" THEN Result(writeFile(f, <<>>, w), "void", "none", <<>>)
    ELSE Result(writeFile(f, <<>>, w), "throw", "init", <<>>)

\* init: mkdir, then access, and writeFile of [] when access fails
MemoStorage_init(f, w) ==
    IF f.kind # "absent" THEN Result(f, "void", "none", <<>>)
    ELSE IF w = "ok" THEN Result(writeFile(f, <<>>, w), "void", "none", <<>>)
    ELSE Result(writeFile(f, <<>>, w), "throw", "init", <<>>)

\* loadMemos: readFile, JSON.parse, map of the dates
MemoStorage_loadMemos(f, r) ==
    IF r = "ok" /\ f.kind = "json"
    THEN Result(f, "memos", "none", ParseDoc(f.doc))
    ELSE Result(f, "throw", "load", <<>>)

\* saveMemos: JSON.stringify, writeFile
MemoStorage_saveMemos(f, memos, w) ==
    IF w = "ok" THEN Result(writeFile(f, Stringify(memos), w), "void", "none", <<>>)
    ELSE Result(writeFile(f, Stringify(memos), w), "throw", "save", <<>>)

\* a mutant of addMemo: a failed load is taken for an empty collection
MemoStorage_addMemoIgnoringLoadError(f, memo, r, w) ==
    LET l == MemoStorage_loadMemos(f, r)
    IN  MemoStorage_saveMemos(f, Append(l.out, memo), w)

\* a mutant of addMemo: the memo is put in front (unshift instead of push)
MemoStorage_addMemoPrepending(f, memo, r, w) ==
    LET l == MemoStorage_loadMemos(f, r)
    IN  IF l.ret = "throw" THEN l
        ELSE MemoStorage_saveMemos(f, <<memo>> \o l.out, w)

\* addMemo: load, push, save
MemoStorage_addMemo(f, memo, r, w) ==
    LET l == MemoStorage_loadMemos(f, r)
    IN  IF l.ret = "throw" THEN l
        ELSE MemoStorage_saveMemos(f, Append(l.out, memo), w)

\* memos.findIndex(memo => memo.id === id): 0 stands for -1
findIndex(memos, id) ==
    IF \E i \in 1..Len(memos) : memos[i].id = id
    THEN CHOOSE i \in 1..Len(memos) :
            /\ memos[i].id = id
            /\ \A j \in 1..(i - 1) : memos[j].id # id
    ELSE 0

\* getMemo: load, find (|| null)
MemoStorage_getMemo(f, id, r) ==
    LET l == MemoStorage_loadMemos(f, r)
        i == findIndex(l.out, id)
    IN  IF l.ret = "throw" THEN l
        ELSE IF i = 0 THEN Result(f, "null", "none", <<>>)
        ELSE Result(f, "memo", "none", <<l.out[i]>>)

\* a mutant of the storage updateMemo: the updated memo is moved to the end
MemoStorage_updateMemoAppending(f, updatedMemo, r, w) ==
    LET l == MemoStorage_loadMemos(f, r)
        i == findIndex(l.out, updatedMemo.id)
        s == MemoStorage_saveMemos(f,
                Append(SelectSeq(l.out, LAMBDA m : m.id # updatedMemo.id), updatedMemo), w)
    IN  IF l.ret = "throw" THEN l
        ELSE IF i = 0 THEN Result(f, "false", "none", <<>>)
        ELSE IF s.ret = "throw" THEN s
        ELSE Result(s.file, "true", "none", <<>>)

\* updateMemo: load, findIndex, memos[index] = updatedMemo, save
MemoStorage_updateMemo(f, updatedMemo, r, w) ==
    LET l == MemoStorage_loadMemos(f, r)
        i == findIndex(l.out, updatedMemo.id)
        s == MemoStorage_saveMemos(f, [l.out EXCEPT ![i] = updatedMemo], w)
    IN  IF l.ret = "throw" THEN l
        ELSE IF i = 0 THEN Result(f, "false", "none", <<>>)
        ELSE IF s.ret = "throw" THEN s
        ELSE Result(s.file, "true", "none", <<>>)

\* deleteMemo: load, filter, compare the lengths, save
MemoStorage_deleteMemo(f, id, r, w) ==
    LET l == MemoStorage_loadMemos(f, r)
        filteredMemos == SelectSeq(l.out, LAMBDA m : m.id # id)
        s == MemoStorage_saveMemos(f, filteredMemos, w)
    IN  IF l.ret = "throw" THEN l
        ELSE IF Len(filteredMemos) = Len(l.out) THEN Result(f, "false", "none", <<>>)
        ELSE IF s.ret = "throw" THEN s
        ELSE Result(s.file, "true", "none", <<>>)

\* clearAll: save of the empty collection
MemoStorage_clearAll(f, w) == MemoStorage_saveMemos(f, <<>>, w)

----------------------------------------------------------------------------
(* Command interface: class MemoCLI and main of src/src/storage.ts *)

\* the updates of update <id> --title T2 and of update <id> --content C2
TitleOnly   == [title |-> <<"T2">>, content |-> <<>>, tags |-> <<>>]
ContentOnly == [title |-> <<>>, content |-> <<"C2">>, tags |-> <<>>]

\* the updates main builds from --title, --content and --tags: an option that
\* is the last argument gives the value undefined
CliUpdateInputs ==
    UpdateInputs \cup {[title |-> <<Undefined>>, content |-> <<>>, tags |-> <<>>]}

\* MemoCLI.add: createMemo, storage.addMemo, return memo.id
MemoCLI_add(f, input, t, idTime, sfx, r, w) ==
    LET memo == createMemo(input, t, idTime, sfx)
        a    == MemoStorage_addMemo(f, memo, r, w)
    IN  IF a.ret = "throw" THEN Result(a.file, "throw", a.err, <<memo>>)
        ELSE Result(a.file, "id", "none", <<memo>>)

\* MemoCLI.update: storage.getMemo, updateMemo, storage.updateMemo
MemoCLI_update(f, id, updates, t, r1, r2, w) ==
    LET g == MemoStorage_getMemo(f, id, r1)
        updatedMemo == updateMemo(g.out[1], updates, t)
        u == MemoStorage_updateMemo(f, updatedMemo, r2, w)
    IN  IF g.ret = "throw" THEN g
        ELSE IF g.ret = "null" THEN Result(f, "false", "none", <<>>)
        ELSE Result(u.file, u.ret, u.err, <<updatedMemo>>)

\* main, command add: cli.init() and then cli.add
main_add(f, input, t, idTime, sfx, wi, r, w) ==
    LET i == MemoStorage_init(f, wi)
    IN  IF i.ret = "throw" THEN i
        ELSE MemoCLI_add(i.file, input, t, idTime, sfx, r, w)

\* main, command update: cli.init() and then cli.update
main_update(f, id, updates, t, wi, r1, r2, w) ==
    LET i == MemoStorage_init(f, wi)
    IN  IF i.ret = "throw" THEN i
        ELSE MemoCLI_update(i.file, id, updates, t, r1, r2, w)

----------------------------------------------------------------------------
(* Queries of src/src/memo.ts, as the commands list and search use them *)

\* s.toLowerCase().includes(k.toLowerCase()) on the strings of the model:
\* "T" is part of "T2" and "C" of "C2"
includes(s, k) == s = k \/ <<k, s>> \in {<<"T", "T2">>, <<"C", "C2">>}

\* the memo makes the callback of searchMemos throw a TypeError: toLowerCase
\* of an undefined title, or of an undefined content once the title does
\* not match
SearchThrows(memo, keyword) ==
    \/ memo.title = Undefined
    \/ ~includes(memo.title, keyword) /\ memo.content = Undefined

\* searchMemos: filter on title, content and tags (for memos that do not throw)
searchMemos(memos, keyword) ==
    SelectSeq(memos, LAMBDA memo :
        \/ includes(memo.title, keyword)
        \/ includes(memo.content, keyword)
        \/ \E i \in 1..Len(memo.tags) : includes(memo.tags[i], keyword))

\* filterMemosByTag: memos.filter(memo => memo.tags.includes(tag))
filterMemosByTag(memos, tag) ==
    SelectSeq(memos, LAMBDA memo : \E i \in 1..Len(memo.tags) : memo.tags[i] = tag)

\* the comparator of sortMemosByDate
compareByDate(a, b, order) ==
    IF order = "asc" THEN a.createdAt - b.createdAt ELSE b.createdAt - a.createdAt

\* a mutant of InsertByDate: x goes before the elements it compares equal to
InsertByDateBeforeEqual(sorted, x, order) ==
    LET k == Cardinality({i \in 1..Len(sorted) : compareByDate(sorted[i], x, order) < 0})
    IN  SubSeq(sorted, 1, k) \o <<x>> \o SubSeq(sorted, k + 1, Len(sorted))

\* Array.prototype.sort is stable: x goes behind every element that does not
\* compare greater than it
InsertByDate(sorted, x, order) ==
    LET k == Cardinality({i \in 1..Len(sorted) : compareByDate(sorted[i], x, order) <= 0})
    IN  SubSeq(sorted, 1, k) \o <<x>> \o SubSeq(sorted, k + 1, Len(sorted))

RECURSIVE SortCopy(_, _)
\* [...memos].sort(comparator): the sorted copy
SortCopy(memos, order) ==
    IF memos = <<>> THEN <<>>
    ELSE InsertByDate(SortCopy(SubSeq(memos, 1, Len(memos) - 1), order),
                      memos[Len(memos)], order)

\* sortMemosByDate(memos, order = 'desc')
sortMemosByDate(memos, order) ==
    SortCopy(memos, IF order = Undefined THEN "desc" ELSE order)

----------------------------------------------------------------------------
(* The commands of main.  A command line argument is <<>> when it is not   *)
(* given and <<v>> when it is; a command's result also has the exit code   *)
(* of the process and the message it printed.                              *)

\* the empty string given as an id
EmptyId == [ms |-> 0, sfx |-> ""]

\* !title, !content, !keyword: the argument is not given or is empty
NoText(a) == a = <<>> \/ a = <<"">>

\* !id
NoId(a) == a = <<>> \/ a = <<EmptyId>>

\* what main makes of a result: process.exit(1) in the catch of main and in
\* the catch of the entry point, exit code 0 when main returns
Exit(res, msg) ==
    [file |-> res.file, ret |-> res.ret, err |-> res.err, out |-> res.out,
     exit |-> IF res.ret = "throw" THEN 1 ELSE 0,
     msg  |-> IF res.ret = "throw" THEN "error" ELSE msg]

\* a required argument is not there: the usage message and process.exit(1)
Usage(f) ==
    [file |-> f, ret |-> "exit", err |-> "none", out |-> <<>>,
     exit |-> 1, msg |-> "usage"]

\* the "not found" message of MemoCLI.show, update and delete
NotFound(g) == IF g.ret = "null" THEN "not found" ELSE "none"

\* MemoCLI.list: loadMemos, filterMemosByTag, sortMemosByDate, print;
\* memo.content.substring throws on a memo without content
MemoCLI_list(f, tag, r) ==
    LET l == MemoStorage_loadMemos(f, r)
        filtered == IF tag # <<>> /\ tag # <<"">> THEN filterMemosByTag(l.out, tag[1])
                    ELSE l.out
        memos == sortMemosByDate(filtered, Undefined)
    IN  IF l.ret = "throw" THEN l
        ELSE IF \E i \in 1..Len(memos) : memos[i].content = Undefined
             THEN Result(f, "throw", "TypeError", <<>>)
        ELSE Result(f, "void", "none", memos)

\* MemoCLI.show: getMemo, print
MemoCLI_show(f, id, r) ==
    LET g == MemoStorage_getMemo(f, id, r)
    IN  IF g.ret = "throw" THEN g ELSE Result(f, "void", "none", g.out)

\* a mutant of MemoCLI.delete: a memo that is not found is an error
MemoCLI_deleteThrowing(f, id, r1, r2, w) ==
    LET g == MemoStorage_getMemo(f, id, r1)
    IN  IF g.ret = "throw" THEN g
        ELSE IF g.ret = "null" THEN Result(f, "throw", "Error", <<>>)
        ELSE MemoStorage_deleteMemo(f, id, r2, w)

\* MemoCLI.delete: getMemo, storage.deleteMemo
MemoCLI_delete(f, id, r1, r2, w) ==
    LET g == MemoStorage_getMemo(f, id, r1)
    IN  IF g.ret = "throw" THEN g
        ELSE IF g.ret = "null" THEN Result(f, "false", "none", <<>>)
        ELSE MemoStorage_deleteMemo(f, id, r2, w)

\* MemoCLI.search: loadMemos, searchMemos, print
MemoCLI_search(f, keyword, r) ==
    LET l == MemoStorage_loadMemos(f, r)
    IN  IF l.ret = "throw" THEN l
        ELSE IF \E i \in 1..Len(l.out) : SearchThrows(l.out[i], keyword)
             THEN Result(f, "throw", "TypeError", <<>>)
        ELSE Result(f, "void", "none", searchMemos(l.out, keyword))

\* args[3] ? args[3].split(',') : [] (the tags of the model have no comma)
split(a) == IF NoText(a) THEN <<>> ELSE <<a[1]>>

\* update: --tags as the last argument makes args[tagsIndex + 1].split throw
TagsThrow(argv) == argv.tags = <<Undefined>>

\* the updates main builds from the options --title, --content and --tags
UpdatesOf(argv) ==
    [title   |-> argv.title,
     content |-> argv.content,
     tags    |-> IF argv.tags = <<>> THEN <<>> ELSE << split(argv.tags) >>]

\* main: cli.init(), then the command of argv on the file init left.  r1 and
\* r2 are the outcomes of the command's first and second read, w of its write.
main(f, argv, t, idTime, sfx, wi, r1, r2, w) ==
    LET i == MemoStorage_init(f, wi)
        g == i.file
        c == argv.command
    IN  IF i.ret = "throw" THEN Exit(i, "none")
        ELSE CASE c = "add" ->
                    IF NoText(argv.title) \/ NoText(argv.content) THEN Usage(g)
                    ELSE Exit(main_add(f, [title   |-> argv.title[1],
                                           content |-> argv.content[1],
                                           tags    |-> split(argv.tags)],
                                       t, idTime, sfx, wi, r1, w), "created")
               [] c = "list" -> Exit(MemoCLI_list(g, argv.tag, r1), "none")
               [] c = "show" ->
                    IF NoId(argv.id) THEN Usage(g)
                    ELSE Exit(MemoCLI_show(g, argv.id[1], r1),
                              NotFound(MemoStorage_getMemo(g, argv.id[1], r1)))
               [] c = "update" ->
                    IF NoId(argv.id) THEN Usage(g)
                    ELSE IF TagsThrow(argv)
                         THEN Exit(Result(g, "throw", "TypeError", <<>>), "none")
                    ELSE Exit(main_update(f, argv.id[1], UpdatesOf(argv), t, wi, r1, r2, w),
                              NotFound(MemoStorage_getMemo(g, argv.id[1], r1)))
               [] c = "delete" ->
                    IF NoId(argv.id) THEN Usage(g)
                    ELSE Exit(MemoCLI_delete(g, argv.id[1], r1, r2, w),
                              NotFound(MemoStorage_getMemo(g, argv.id[1], r1)))
               [] c = "search" ->
                    IF NoText(argv.keyword) THEN Usage(g)
                    ELSE Exit(MemoCLI_search(g, argv.keyword[1], r1), "none")
               [] OTHER -> Exit(Result(g, "void", "none", <<>>), "help")

----------------------------------------------------------------------------
(* Spec: one client at a time *)

Call(op, res) == [op |-> op, ret |-> res.ret, err |-> res.err]

NoCall  == [op |-> "none", ret |-> "none", err |-> "none"]
NoProcs == <<>>

\* the memos in the file, as loadMemos returns them
Stored(f) == IF f.kind = "json" THEN ParseDoc(f.doc) ELSE <<>>

Range(seq) == {seq[i] : i \in 1..Len(seq)}

\* the ids a client can name: those of the memos created, and one of no memo
KnownIds == {m.id : m \in Range(made)} \cup {NonexistentId}

\* the file accepts one more memo within the bound
Room(f) == f.kind = "json" => Len(f.doc) < MaxMemos

\* the times generateId can read after createMemo has read t
IdTimes(t) == {u \in {t, t + 1} : u <= MaxTime}

Init ==
    /\ file = Absent
    /\ now = StartTime
    /\ made = <<>>
    /\ last = NoCall
    /\ procs = NoProcs

\* the clock advances
Tick ==
    /\ now < MaxTime
    /\ now' = now + 1
    /\ UNCHANGED <<file, made, last, procs>>

\* storage.init()
InitStep(w) ==
    LET res == MemoStorage_init(file, w)
    IN  /\ file' = res.file
        /\ last' = Call("init", res)
        /\ UNCHANGED <<now, made, procs>>

DoInit == InitStep("ok")

\* createMemo(input)
CreateMemoStep(input, idTime, sfx) ==
    LET memo == createMemo(input, now, idTime, sfx)
    IN  /\ Len(made) < MaxCreated
        /\ now' = idTime
        /\ made' = Append(made, memo)
        /\ last' = [op |-> "createMemo", ret |-> "memo", err |-> "none"]
        /\ UNCHANGED <<file, procs>>

DoCreateMemo ==
    \E input \in CreateInputs, idTime \in IdTimes(now), sfx \in Suffixes :
        CreateMemoStep(input, idTime, sfx)

\* storage.loadMemos()
LoadMemosStep(r) ==
    LET res == MemoStorage_loadMemos(file, r)
    IN  /\ last' = Call("loadMemos", res)
        /\ UNCHANGED <<file, now, made, procs>>

DoLoadMemos == LoadMemosStep("ok")

\* storage.addMemo(memo)
AddMemoStep(memo, r, w) ==
    LET res == MemoStorage_addMemo(file, memo, r, w)
    IN  /\ Room(file)
        /\ file' = res.file
        /\ last' = Call("addMemo", res)
        /\ UNCHANGED <<now, made, procs>>

DoAddMemo ==
    \E memo \in Range(made) : AddMemoStep(memo, "ok", "ok")

\* storage.getMemo(id)
GetMemoStep(id, r) ==
    LET res == MemoStorage_getMemo(file, id, r)
    IN  /\ last' = Call("getMemo", res)
        /\ UNCHANGED <<file, now, made, procs>>

DoGetMemo == \E id \in KnownIds : GetMemoStep(id, "ok")

\* storage.updateMemo(updatedMemo), updatedMemo = updateMemo(memo, updates)
StorageUpdateMemoStep(memo, updates, r, w) ==
    LET res == MemoStorage_updateMemo(file, updateMemo(memo, updates, now), r, w)
    IN  /\ file' = res.file
        /\ last' = Call("storage.updateMemo", res)
        /\ UNCHANGED <<now, made, procs>>

DoStorageUpdateMemo ==
    \E memo \in Range(made), updates \in UpdateInputs :
        StorageUpdateMemoStep(memo, updates, "ok", "ok")

\* storage.deleteMemo(id)
DeleteMemoStep(id, r, w) ==
    LET res == MemoStorage_deleteMemo(file, id, r, w)
    IN  /\ file' = res.file
        /\ last' = Call("deleteMemo", res)
        /\ UNCHANGED <<now, made, procs>>

DoDeleteMemo ==
    \E id \in KnownIds : DeleteMemoStep(id, "ok", "ok")

\* storage.clearAll()
ClearAllStep(w) ==
    LET res == MemoStorage_clearAll(file, w)
    IN  /\ file' = res.file
        /\ last' = Call("clearAll", res)
        /\ UNCHANGED <<now, made, procs>>

DoClearAll == ClearAllStep("ok")

\* the command add <title> <content> [tags]
CmdAddStep(input, idTime, sfx, wi, r, w) ==
    LET res == main_add(file, input, now, idTime, sfx, wi, r, w)
    IN  /\ Len(made) < MaxCreated
        /\ Room(file)
        /\ file' = res.file
        /\ now' = IF res.err = "init" THEN now ELSE idTime
        /\ made' = IF res.err = "init" THEN made ELSE Append(made, res.out[1])
        /\ last' = Call("add", res)
        /\ UNCHANGED procs

CmdAdd ==
    \E input \in CreateInputs, idTime \in IdTimes(now), sfx \in Suffixes :
        CmdAddStep(input, idTime, sfx, "ok", "ok", "ok")

\* the command update <id> [--title t] [--content c] [--tags a,b]
CmdUpdateStep(id, updates, wi, r1, r2, w) ==
    LET res == main_update(file, id, updates, now, wi, r1, r2, w)
    IN  /\ file' = res.file
        /\ last' = Call("update", res)
        /\ UNCHANGED <<now, made, procs>>

CmdUpdate ==
    \E id \in KnownIds, updates \in CliUpdateInputs :
        CmdUpdateStep(id, updates, "ok", "ok", "ok", "ok")

Next ==
    \/ Tick
    \/ DoInit
    \/ DoCreateMemo
    \/ DoLoadMemos
    \/ DoAddMemo
    \/ DoGetMemo
    \/ DoStorageUpdateMemo
    \/ DoDeleteMemo
    \/ DoClearAll
    \/ CmdAdd
    \/ CmdUpdate

Spec == Init /\ [][Next]_vars

----------------------------------------------------------------------------
(* FaultSpec: the storage calls of one client, on a file system whose calls *)
(* can fail.  The first failure ends a storage call, so at most one of its  *)
(* file system calls fails.                                                 *)

FaultyInit == \E w \in WriteOutcomes : InitStep(w)

FaultyLoadMemos == \E r \in ReadOutcomes : LoadMemosStep(r)

FaultyAddMemo ==
    \E memo \in Range(made), r \in ReadOutcomes, w \in WriteOutcomes :
        (r = "ok" \/ w = "ok") /\ AddMemoStep(memo, r, w)

FaultyGetMemo == \E id \in KnownIds, r \in ReadOutcomes : GetMemoStep(id, r)

FaultyStorageUpdateMemo ==
    \E memo \in Range(made), updates \in UpdateInputs,
       r \in ReadOutcomes, w \in WriteOutcomes :
        (r = "ok" \/ w = "ok") /\ StorageUpdateMemoStep(memo, updates, r, w)

FaultyDeleteMemo ==
    \E id \in KnownIds, r \in ReadOutcomes, w \in WriteOutcomes :
        (r = "ok" \/ w = "ok") /\ DeleteMemoStep(id, r, w)

FaultyClearAll == \E w \in WriteOutcomes : ClearAllStep(w)

FaultNext ==
    \/ Tick
    \/ DoCreateMemo
    \/ FaultyInit
    \/ FaultyLoadMemos
    \/ FaultyAddMemo
    \/ FaultyGetMemo
    \/ FaultyStorageUpdateMemo
    \/ FaultyDeleteMemo
    \/ FaultyClearAll

FaultSpec == Init /\ [][FaultNext]_vars

----------------------------------------------------------------------------
(* CliSpec: one command invocation after the other, each a run of main, on *)
(* a file system whose calls can fail.                                      *)

\* the ids given on the command line
IdArgs == {<<>>, <<EmptyId>>} \cup {<<id>> : id \in KnownIds}

AddArgs    == [command : {"add"}, title : {<<>>, <<"">>, <<"T">>},
               content : {<<>>, <<"C">>}, tags : {<<>>, <<"a">>}]
ListArgs   == [command : {"list"}, tag : {<<>>, <<"a">>}]
ShowArgs   == [command : {"show"}, id : IdArgs]
DeleteArgs == [command : {"delete"}, id : IdArgs]
SearchArgs == [command : {"search"}, keyword : {<<>>, <<"">>, <<"T">>}]
HelpArgs   == [command : {"help", "frobnicate", Undefined}]

\* update <id> with no option, with --title and a value, or with one of
\* --title, --content, --tags as the last argument
UpdateArgs ==
    { [command |-> "update", id |-> id, title |-> o[1], content |-> o[2], tags |-> o[3]] :
        id \in IdArgs,
        o \in { <<<<>>, <<>>, <<>>>>,
                <<<<"T2">>, <<>>, <<>>>>, <<<<Undefined>>, <<>>, <<>>>>,
                <<<<>>, <<Undefined>>, <<>>>>,
                <<<<>>, <<>>, <<Undefined>>>> } }

\* the outcomes of the file system calls of one run: init's write, the
\* command's reads and its write; the first failure ends the run
Outcomes ==
    { o \in [wi : WriteOutcomes, r1 : ReadOutcomes, r2 : ReadOutcomes, w : WriteOutcomes] :
        Cardinality({k \in {"wi", "r1", "r2", "w"} : o[k] # "ok"}) <= 1 }

\* main run on the file, at the present time
Run(argv, idTime, sfx, o) ==
    main(file, argv, now, idTime, sfx, o.wi, o.r1, o.r2, o.w)

Exited(argv, res) ==
    [op |-> argv.command, ret |-> res.ret, err |-> res.err,
     exit |-> res.exit, msg |-> res.msg]

\* a run of main that creates no memo
RunStep(argv, o) ==
    LET res == Run(argv, now, "k3x9a2b", o)
    IN  /\ file' = res.file
        /\ last' = Exited(argv, res)
        /\ UNCHANGED <<now, made, procs>>

\* add <title> <content> [tags]; the clock is not followed through the runs
RunAdd ==
    \E argv \in AddArgs, sfx \in Suffixes, o \in Outcomes :
        LET res == Run(argv, now, sfx, o)
        IN  /\ Len(made) < MaxCreated
            /\ Room(file)
            /\ file' = res.file
            /\ made' = IF res.out = <<>> THEN made ELSE Append(made, res.out[1])
            /\ last' = Exited(argv, res)
            /\ UNCHANGED <<now, procs>>

RunList   == \E argv \in ListArgs, o \in Outcomes : RunStep(argv, o)
RunShow   == \E argv \in ShowArgs, o \in Outcomes : RunStep(argv, o)
RunUpdate == \E argv \in UpdateArgs, o \in Outcomes : RunStep(argv, o)
RunDelete == \E argv \in DeleteArgs, o \in Outcomes : RunStep(argv, o)
RunSearch == \E argv \in SearchArgs, o \in Outcomes : RunStep(argv, o)
RunHelp   == \E argv \in HelpArgs, o \in Outcomes : RunStep(argv, o)

CliNext ==
    \/ RunAdd
    \/ RunList
    \/ RunShow
    \/ RunUpdate
    \/ RunDelete
    \/ RunSearch
    \/ RunHelp

CliSpec == Init /\ [][CliNext]_vars

----------------------------------------------------------------------------
(* SortSpec: sortMemosByDate called on an array of memos.  `made` is the    *)
(* caller's array; the memos in it are created at the times of the clock,  *)
(* several of them at the same time.                                        *)

Orders == {"asc", "desc", Undefined}     \* Undefined: the argument is omitted

\* the memos createMemo can have returned
Creatable ==
    {createMemo(input, t, t, sfx) :
        input \in CreateInputs, t \in StartTime..MaxTime, sfx \in Suffixes}

\* the arrays of at most n memos
RECURSIVE Arrays(_)
Arrays(n) ==
    IF n = 0 THEN {<<>>}
    ELSE Arrays(n - 1) \cup
         {Append(a, m) : a \in {b \in Arrays(n - 1) : Len(b) = n - 1}, m \in Creatable}

\* the call sortMemosByDate(memos, order): the caller's array after it and
\* the array returned; sort works in place on the copy [...memos]
sortMemosByDate_call(memos, order) ==
    [memos |-> memos, ret |-> sortMemosByDate(memos, order)]

SortInit ==
    /\ made \in Arrays(MaxSorted)
    /\ file = Absent
    /\ now = StartTime
    /\ last = NoCall
    /\ procs = NoProcs

SortStep(order) ==
    LET c == sortMemosByDate_call(made, order)
    IN  /\ made' = c.memos
        /\ last' = [op |-> "sortMemosByDate", order |-> order,
                    memos |-> made, ret |-> c.ret]
        /\ UNCHANGED <<file, now, procs>>

DoSort == \E order \in Orders : SortStep(order)

SortNext == DoSort

SortSpec == SortInit /\ [][SortNext]_vars

----------------------------------------------------------------------------
(* ConcSpec: two processes, each running one storage call on the same file. *)
(* A call reads the file in one step (loadMemos) and writes it in a later   *)
(* step (saveMemos); nothing is locked in between.  The store is            *)
(* initialized, and holds no memo or one.                                   *)

Procs == {1, 2}


Idle == [pc |-> "idle", op |-> "none", memo |-> <<>>, id |-> <<>>,
         read |-> Absent, ret |-> "none", latest |-> FALSE]

\* the memo the store holds at the start, when it holds one
FirstMemo == createMemo([title |-> "T", content |-> "C", tags |-> <<"a">>],
                        StartTime, StartTime, "k3x9a2b")

\* a mutant of SeenBy: the call works on the file as it is when it saves
SeenByLocked(p) == file

\* the file as the call of process p has read it: `memos` of addMemo,
\* updateMemo and deleteMemo is what loadMemos returned
SeenBy(p) == procs[p].read

\* the call of process p, run on the file f
Applied(pr, f) ==
    CASE pr.op = "addMemo"    -> MemoStorage_addMemo(f, pr.memo[1], "ok", "ok")
      [] pr.op = "updateMemo" -> MemoStorage_updateMemo(f, pr.memo[1], "ok", "ok")
      [] pr.op = "deleteMemo" -> MemoStorage_deleteMemo(f, pr.id[1], "ok", "ok")

ConcInit ==
    /\ \/ file = JsonFile(<<>>) /\ made = <<>>
       \/ file = JsonFile(Stringify(<<FirstMemo>>)) /\ made = <<FirstMemo>>
    /\ now = StartTime
    /\ last = NoCall
    /\ procs = [p \in Procs |-> Idle]

\* process p has called a storage operation, which has read the file; an
\* updateMemo or deleteMemo that finds no record returns false at once
Begin(p, op, memo, id) ==
    LET pr == [Idle EXCEPT !.op = op, !.memo = memo, !.id = id, !.read = file]
        res == Applied(pr, file)
    IN  /\ procs[p].pc = "idle"
        /\ procs' = [procs EXCEPT ![p] =
                        IF res.ret = "false"
                        THEN [pr EXCEPT !.pc = "done", !.ret = "false"]
                        ELSE [pr EXCEPT !.pc = "loaded"]]

\* addMemo(createMemo(input)) up to the end of its loadMemos
BeginAdd(p) ==
    \E input \in CreateInputs, sfx \in Suffixes :
        LET memo == createMemo(input, now, now, sfx)
        IN  /\ Len(made) < MaxCreated
            /\ Begin(p, "addMemo", <<memo>>, <<>>)
            /\ made' = Append(made, memo)
            /\ UNCHANGED <<file, now, last>>

\* updateMemo(updateMemo(memo, updates)) up to the end of its loadMemos
BeginUpdate(p) ==
    \E memo \in Range(made), updates \in {TitleOnly, ContentOnly} :
        /\ Begin(p, "updateMemo", <<updateMemo(memo, updates, now)>>, <<>>)
        /\ UNCHANGED <<file, now, made, last>>

\* deleteMemo(id) up to the end of its loadMemos
BeginDelete(p) ==
    \E id \in KnownIds :
        /\ Begin(p, "deleteMemo", <<>>, <<id>>)
        /\ UNCHANGED <<file, now, made, last>>

\* the saveMemos of the call of process p, and its return
Save(p) ==
    LET res == Applied(procs[p], SeenBy(p))
    IN  /\ procs[p].pc = "loaded"
        /\ file' = res.file
        /\ procs' = [q \in Procs |->
                        IF q = p
                        THEN [procs[p] EXCEPT !.pc = "done", !.ret = res.ret, !.latest = TRUE]
                        ELSE [procs[q] EXCEPT !.latest = FALSE]]
        /\ UNCHANGED <<now, made, last>>

ConcNext ==
    \E p \in Procs :
        \/ BeginAdd(p)
        \/ BeginUpdate(p)
        \/ BeginDelete(p)
        \/ Save(p)

ConcSpec == ConcInit /\ [][ConcNext]_vars

----------------------------------------------------------------------------
(* RaceSpec: four command invocations on the same file, two that update,   *)
(* one that deletes and one more that updates.  MemoCLI.update and          *)
(* MemoCLI.delete are a getMemo and, in a later step, the storage call that *)
(* writes; every storage call is one step.  The store holds two memos.      *)

Clients == 1..4

NoUpdates == [title |-> <<>>, content |-> <<>>, tags |-> <<>>]

\* the command line of each client; the id is chosen when it runs
Commands ==
    << [command |-> "update", updates |-> TitleOnly],
       [command |-> "update", updates |-> ContentOnly],
       [command |-> "delete", updates |-> NoUpdates],
       [command |-> "update", updates |-> TitleOnly] >>

SecondMemo == createMemo([title |-> "T", content |-> "C", tags |-> <<"a">>],
                         StartTime, StartTime, "p0q7zz1")

\* a client that has not run yet: the id it names, the memo getMemo gave it,
\* the record it built from that memo, what its command returned, and
\* whether the stored record of that id is the one it wrote
Waiting == [pc |-> "idle", id |-> <<>>, memo |-> <<>>, updatedMemo |-> <<>>,
            ret |-> "none", latest |-> FALSE]

\* a mutant of Built: the updates are applied to the record stored now
BuiltFromStored(p) ==
    LET g == MemoStorage_getMemo(file, procs[p].id[1], "ok")
    IN  IF g.ret = "memo" THEN updateMemo(g.out[1], Commands[p].updates, now)
        ELSE procs[p].updatedMemo[1]

\* const updatedMemo = updateMemo(memo, updates): built from what getMemo
\* returned to this client
Built(p) == procs[p].updatedMemo[1]

RaceInit ==
    /\ file = JsonFile(Stringify(<<FirstMemo, SecondMemo>>))
    /\ made = <<FirstMemo, SecondMemo>>
    /\ now = StartTime
    /\ last = NoCall
    /\ procs = [p \in Clients |-> Waiting]

\* the getMemo of MemoCLI.update or MemoCLI.delete; a memo that is not found
\* ends the command
Lookup(p, id) ==
    LET g == MemoStorage_getMemo(file, id, "ok")
    IN  /\ procs[p].pc = "idle"
        /\ procs' = [procs EXCEPT ![p] =
              IF g.ret = "null"
              THEN [@ EXCEPT !.pc = "done", !.id = <<id>>, !.ret = "false"]
              ELSE [@ EXCEPT !.pc = "found", !.id = <<id>>, !.memo = g.out,
                             !.updatedMemo =
                                IF Commands[p].command = "update"
                                THEN <<updateMemo(g.out[1], Commands[p].updates, now)>>
                                ELSE <<>>]]
        /\ UNCHANGED <<file, now, made, last>>

\* the command of client p has written (or found nothing to write) and returned
Written(p, res) ==
    /\ file' = res.file
    /\ procs' = [q \in Clients |->
          IF q = p
          THEN [procs[p] EXCEPT !.pc = "done", !.ret = res.ret,
                                !.latest = (res.ret = "true" /\ Commands[p].command = "update")]
          ELSE IF res.ret = "true" /\ procs[q].id = procs[p].id
               THEN [procs[q] EXCEPT !.latest = FALSE]
               ELSE procs[q]]
    /\ UNCHANGED <<now, made, last>>

UpdateLookup(p) ==
    \E id \in KnownIds : Commands[p].command = "update" /\ Lookup(p, id)

\* storage.updateMemo(updatedMemo) of MemoCLI.update
UpdateWrite(p) ==
    /\ Commands[p].command = "update"
    /\ procs[p].pc = "found"
    /\ Written(p, MemoStorage_updateMemo(file, Built(p), "ok", "ok"))

DeleteLookup(p) ==
    \E id \in KnownIds : Commands[p].command = "delete" /\ Lookup(p, id)

\* storage.deleteMemo(id) of MemoCLI.delete
DeleteWrite(p) ==
    /\ Commands[p].command = "delete"
    /\ procs[p].pc = "found"
    /\ Written(p, MemoStorage_deleteMemo(file, procs[p].id[1], "ok", "ok"))

RaceNext ==
    \/ Tick
    \/ \E p \in Clients :
          \/ UpdateLookup(p)
          \/ UpdateWrite(p)
          \/ DeleteLookup(p)
          \/ DeleteWrite(p)

RaceSpec == RaceInit /\ [][RaceNext]_vars

----------------------------------------------------------------------------
(* Claims.  The contracts of the storage calls are stated for every call a  *)
(* client can make in a reachable state; `last` tells which call was made.  *)

Ids(memos) == {memos[i].id : i \in 1..Len(memos)}

\* memos without its k-th element
RemoveAt(memos, k) ==
    [i \in 1..(Len(memos) - 1) |-> IF i < k THEN memos[i] ELSE memos[i + 1]]

\* k is the first position of a memo with this id
IsFirst(memos, id, k) ==
    /\ k \in 1..Len(memos)
    /\ memos[k].id = id
    /\ \A j \in 1..(k - 1) : memos[j].id # id

\* the memos a client can pass to the storage updateMemo
UpdatedMemos == {updateMemo(m, u, now) : m \in Range(made), u \in UpdateInputs}

\* C1: deleteMemo(id) on an id no record has returns false and writes nothing;
\* on an id that exists it returns true and removes exactly one record, the
\* other records and their order unchanged, the count one less.
C1_DeleteRemovesExactlyOne ==
    [][\A id \in KnownIds :
        (file.kind = "json" /\ DeleteMemoStep(id, "ok", "ok")) =>
            IF id \notin Ids(Stored(file))
            THEN last'.ret = "false" /\ file' = file
            ELSE /\ last'.ret = "true"
                 /\ Len(Stored(file')) = Len(Stored(file)) - 1
                 /\ \E k \in 1..Len(Stored(file)) :
                        /\ Stored(file)[k].id = id
                        /\ Stored(file') = RemoveAt(Stored(file), k)]_vars

\* C2: the storage updateMemo(m) returns true exactly when a record with
\* m.id is stored; then the first record with that id is replaced by m in
\* place, the others are unchanged and getMemo(m.id) returns m; when it
\* returns false the file is unchanged.
C2_UpdateReplacesInPlace ==
    \A m \in UpdatedMemos :
        LET before == Stored(file)
            res    == MemoStorage_updateMemo(file, m, "ok", "ok")
            after  == Stored(res.file)
        IN  file.kind = "json" =>
              /\ res.ret \in {"true", "false"}
              /\ res.ret = "true" <=> m.id \in Ids(before)
              /\ res.ret = "true" =>
                    /\ \E k \in 1..Len(before) :
                          IsFirst(before, m.id, k) /\ after = [before EXCEPT ![k] = m]
                    /\ MemoStorage_getMemo(res.file, m.id, "ok").ret = "memo"
                    /\ MemoStorage_getMemo(res.file, m.id, "ok").out = <<m>>
              /\ res.ret = "false" => res.file = file

C2_Witness ==
    /\ last.op = "storage.updateMemo"
    /\ last.ret = "true"
    /\ Len(Stored(file)) = 2
    /\ Stored(file)[1].title = "T2"
    /\ Stored(file)[2].title = "T"

\* C4: addMemo(m) leaves the stored records as they are and puts m after
\* them, also as the command add calls it; from an initialized empty store,
\* add, then an update of the title alone, then delete give a store holding
\* m, then m with the new title and its old content, then nothing.
C4_AddAppendsAndEndToEnd ==
    /\ \A memo \in Range(made) :
          LET res == MemoStorage_addMemo(file, memo, "ok", "ok")
          IN  file.kind = "json" =>
                /\ res.ret = "void"
                /\ Stored(res.file) = Append(Stored(file), memo)
    /\ \A input \in CreateInputs, idTime \in IdTimes(now), sfx \in Suffixes :
          LET res == main_add(file, input, now, idTime, sfx, "ok", "ok", "ok")
              m   == res.out[1]
          IN  file.kind = "json" =>
                /\ res.ret = "id"
                /\ Stored(res.file) = Append(Stored(file), m)
                /\ m.title = input.title /\ m.content = input.content
                /\ m.tags = input.tags
    /\ \A memo \in Range(made) :
          LET f0 == MemoStorage_init(Absent, "ok").file
              f1 == MemoStorage_addMemo(f0, memo, "ok", "ok").file
              g  == MemoStorage_getMemo(f1, memo.id, "ok")
              u  == MemoStorage_updateMemo(f1, updateMemo(g.out[1], TitleOnly, now), "ok", "ok")
              d  == MemoStorage_deleteMemo(u.file, memo.id, "ok", "ok")
          IN  /\ Stored(f0) = <<>>
              /\ Stored(f1) = <<memo>>
              /\ u.ret = "true"
              /\ Len(Stored(u.file)) = 1
              /\ Stored(u.file)[1].title = "T2"
              /\ Stored(u.file)[1].content = memo.content
              /\ d.ret = "true"
              /\ Stored(d.file) = <<>>

C4_Witness ==
    /\ last.op = "addMemo"
    /\ last.ret = "void"
    /\ Len(Stored(file)) = 2
    /\ Stored(file)[1].title = "T2"
    /\ Stored(file)[1].content = "C"

\* C5: a memo keeps the id and the createdAt createMemo gave it, createdAt
\* equals updatedAt in what createMemo returns, and createdAt <= updatedAt
\* in every memo, through updateMemo and the commands add and update.
C5_IdAndCreatedAtFixed ==
    /\ \A m \in Range(made) : m.createdAt = m.updatedAt
    /\ \A s \in Range(Stored(file)) :
          /\ s.createdAt <= s.updatedAt
          /\ \E m \in Range(made) : m.id = s.id /\ m.createdAt = s.createdAt
    /\ \A m \in Range(made) \cup Range(Stored(file)), u \in CliUpdateInputs :
          LET r == updateMemo(m, u, now)
          IN  r.id = m.id /\ r.createdAt = m.createdAt /\ r.createdAt <= r.updatedAt
    /\ \A id \in KnownIds, u \in CliUpdateInputs :
          LET before == Stored(file)
              after  == Stored(main_update(file, id, u, now, "ok", "ok", "ok", "ok").file)
          IN  file.kind = "json" =>
                /\ Len(after) = Len(before)
                /\ \A i \in 1..Len(before) :
                      /\ after[i].id = before[i].id
                      /\ after[i].createdAt = before[i].createdAt
    /\ \A input \in CreateInputs, idTime \in IdTimes(now), sfx \in Suffixes :
          LET before == Stored(file)
              after  == Stored(main_add(file, input, now, idTime, sfx, "ok", "ok", "ok").file)
          IN  file.kind = "json" =>
                \A i \in 1..Len(before) :
                      /\ after[i].id = before[i].id
                      /\ after[i].createdAt = before[i].createdAt

C5_Witness ==
    /\ last.op = "update"
    /\ last.ret = "true"
    /\ \E s \in Range(Stored(file)) : s.createdAt < s.updatedAt

\* C6: any two memos createMemo has returned have distinct ids.
C6_IdsDistinct ==
    \A i, j \in 1..Len(made) : i # j => made[i].id # made[j].id

\* r is memo with exactly the given fields of updates overwritten
Frame(memo, updates, r) ==
    /\ r.id = memo.id
    /\ r.createdAt = memo.createdAt
    /\ r.updatedAt >= memo.updatedAt
    /\ r.title = IF updates.title # <<>> THEN updates.title[1] ELSE memo.title
    /\ r.content = IF updates.content # <<>> THEN updates.content[1] ELSE memo.content
    /\ r.tags = IF updates.tags # <<>> THEN updates.tags[1] ELSE memo.tags
    /\ (updates.title = <<>> /\ updates.content = <<>> /\ updates.tags = <<>>)
          => [r EXCEPT !.updatedAt = memo.updatedAt] = memo

\* C7: updateMemo(memo, updates) overwrites exactly the fields updates gives,
\* keeps id and createdAt and does not move updatedAt back; the record the
\* command update stores is the stored record changed in this way.
C7_UpdateFrame ==
    /\ \A m \in Range(made) \cup Range(Stored(file)), u \in CliUpdateInputs :
          Frame(m, u, updateMemo(m, u, now))
    /\ \A id \in KnownIds, u \in CliUpdateInputs :
          LET before == Stored(file)
              res    == main_update(file, id, u, now, "ok", "ok", "ok", "ok")
              after  == Stored(res.file)
          IN  (file.kind = "json" /\ res.ret = "true") =>
                \E k \in 1..Len(before) :
                    /\ IsFirst(before, id, k)
                    /\ Len(after) = Len(before)
                    /\ Frame(before[k], u, after[k])
                    /\ \A i \in 1..Len(before) : i # k => after[i] = before[i]

C7_Witness ==
    /\ last.op = "update"
    /\ last.ret = "true"
    /\ \E s \in Range(Stored(file)) :
          /\ s.title = "T2" /\ s.content = "C" /\ s.tags = <<"a">>
          /\ s.createdAt < s.updatedAt

\* the collections a client can pass to saveMemos in this state
Collections ==
    LET memos == Range(made) \cup UpdatedMemos
                   \cup {updateMemo(m, u, now) : m \in Range(Stored(file)), u \in CliUpdateInputs}
    IN  {Stored(file)} \cup {<<m>> : m \in memos} \cup {Append(Stored(file), m) : m \in memos}

\* C8: saving what loadMemos returns leaves the document as it is, and
\* loadMemos after saveMemos(c) returns c, record by record, dates included.
C8_RoundTrip ==
    /\ file.kind = "json" =>
          MemoStorage_saveMemos(file, MemoStorage_loadMemos(file, "ok").out, "ok").file = file
    /\ \A c \in Collections :
          LET l == MemoStorage_loadMemos(MemoStorage_saveMemos(file, c, "ok").file, "ok")
          IN  /\ l.ret = "memos"
              /\ Len(l.out) = Len(c)
              /\ \A i \in 1..Len(c) : l.out[i] = c[i]

C8_Witness ==
    /\ last.op = "loadMemos"
    /\ last.ret = "memos"
    /\ \E s \in Range(Stored(file)) : s.title = Undefined /\ s.createdAt < s.updatedAt

\* C9: init writes the empty array when the file is absent and leaves an
\* existing file as it is, so a second init changes nothing and a command
\* on an existing file does what it does without its init.
C9_InitKeepsData ==
    LET res == MemoStorage_init(file, "ok")
    IN  /\ res.ret = "void"
        /\ file.kind = "absent" => res.file = JsonFile(<<>>)
        /\ file.kind # "absent" =>
              \A w \in WriteOutcomes : MemoStorage_init(file, w) = Result(file, "void", "none", <<>>)
        /\ MemoStorage_init(res.file, "ok") = Result(res.file, "void", "none", <<>>)
        /\ file.kind = "json" =>
              \A id \in KnownIds, u \in CliUpdateInputs :
                  main_update(file, id, u, now, "ok", "ok", "ok", "ok")
                      = MemoCLI_update(file, id, u, now, "ok", "ok", "ok")

C9_Witness ==
    /\ last.op = "init"
    /\ last.ret = "void"
    /\ Len(Stored(file)) = 2

\* C10: loadMemos returns every stored record or throws a load error, and
\* addMemo, getMemo, updateMemo and deleteMemo whose load fails throw that
\* error and write nothing, whatever a write would have done.
C10_LoadFailureWritesNothing ==
    \A r \in ReadOutcomes :
        LET l == MemoStorage_loadMemos(file, r)
            failed == Result(file, "throw", "load", <<>>)
        IN  /\ IF r = "ok" /\ file.kind = "json"
               THEN /\ l.ret = "memos"
                    /\ Len(l.out) = Len(file.doc)
                    /\ \A i \in 1..Len(file.doc) : l.out[i] = ParseMemo(file.doc[i])
               ELSE l = failed
            /\ l.ret = "throw" =>
                  /\ \A id \in KnownIds : MemoStorage_getMemo(file, id, r) = failed
                  /\ \A w \in WriteOutcomes :
                        /\ \A m \in Range(made) :
                              MemoStorage_addMemo(file, m, r, w) = failed
                        /\ \A m \in UpdatedMemos :
                              MemoStorage_updateMemo(file, m, r, w) = failed
                        /\ \A id \in KnownIds :
                              MemoStorage_deleteMemo(file, id, r, w) = failed

C10_Witness ==
    /\ last.op = "addMemo"
    /\ last.ret = "throw"
    /\ last.err = "load"
    /\ file.kind = "garbage"

Succeeded(pr) == pr.pc = "done" /\ pr.ret \in {"void", "true"}

\* C3: the document is what the call that saved last made of the file it
\* had read; of two addMemo calls that read the same file and both
\* succeed, the document holds the memo of the later save and not both.
C3_LastSaveWins ==
    \A p \in Procs :
        procs[p].latest =>
            /\ Succeeded(procs[p])
            /\ file = Applied(procs[p], procs[p].read).file
            /\ \A q \in Procs \ {p} :
                  ( /\ Succeeded(procs[q])
                    /\ procs[p].op = "addMemo" /\ procs[q].op = "addMemo"
                    /\ procs[q].read = procs[p].read )
                  => Stored(file) = Append(Stored(procs[p].read), procs[p].memo[1])

\* two addMemo calls on an empty store have both returned; one record is stored
C3_Witness ==
    /\ \A p \in Procs : procs[p].op = "addMemo" /\ Succeeded(procs[p])
    /\ \A p \in Procs : procs[p].read = JsonFile(<<>>)
    /\ procs[1].memo # procs[2].memo
    /\ Len(Stored(file)) = 1

----------------------------------------------------------------------------
(* Claims about the commands (CliSpec) *)

\* a required argument is missing: add without title or content; show,
\* update, delete without id; search without keyword
MissingArgument(argv) ==
    CASE argv.command = "add" -> NoText(argv.title) \/ NoText(argv.content)
      [] argv.command \in {"show", "update", "delete"} -> NoId(argv.id)
      [] argv.command = "search" -> NoText(argv.keyword)
      [] OTHER -> FALSE

\* the command lines of the model, each with the suffix an id would get
CommandLines ==
    {<<argv, sfx>> : argv \in AddArgs, sfx \in Suffixes}
    \cup {<<argv, "k3x9a2b">> : argv \in ListArgs \cup HelpArgs}
    \cup {<<argv, "k3x9a2b">> : argv \in ShowArgs \cup DeleteArgs}
    \cup {<<argv, "k3x9a2b">> : argv \in UpdateArgs}
    \cup {<<argv, "k3x9a2b">> : argv \in SearchArgs}

\* the run left the stored collection as it was: the file is untouched, or
\* it did not exist and is now the empty collection init writes
KeptCollection(f, g) ==
    IF f.kind = "absent" THEN g = JsonFile(<<>>) ELSE g = f

\* nothing makes the run throw before it has looked the id up: the file
\* system calls succeed and the file, when there is one, is a JSON document
Readable(f, o) ==
    /\ f.kind # "garbage"
    /\ \A k \in {"wi", "r1", "r2", "w"} : o[k] = "ok"

----------------------------------------------------------------------------
(* Claims about sortMemosByDate (SortSpec) *)

\* the bijections of 1..n
Rearrangements(n) ==
    {p \in [1..n -> 1..n] : \A i, j \in 1..n : p[i] = p[j] => i = j}

\* sorted is memos rearranged by p: ordered by createdAt in the direction
\* asked for, memos created at the same time in their order in memos
StablySorted(memos, sorted, p, ascending) ==
    /\ \A i \in 1..Len(memos) : sorted[i] = memos[p[i]]
    /\ \A i, j \in 1..Len(memos) :
          i < j =>
            /\ IF ascending THEN sorted[i].createdAt <= sorted[j].createdAt
               ELSE sorted[i].createdAt >= sorted[j].createdAt
            /\ sorted[i].createdAt = sorted[j].createdAt => p[i] < p[j]

\* C12: sortMemosByDate(memos, order) returns a permutation of memos ordered
\* by createdAt, non-decreasing for 'asc', non-increasing for 'desc' and for
\* no order; memos with equal createdAt keep their input order; the input
\* array is as it was.
C12_StableSortByDate ==
    last.op = "sortMemosByDate" =>
        /\ Len(last.ret) = Len(last.memos)
        /\ \E p \in Rearrangements(Len(last.memos)) :
              StablySorted(last.memos, last.ret, p, last.order = "asc")
        /\ made = last.memos

\* a descending sort has moved a later memo in front of two memos created
\* at the same time, which kept their order
C12_Witness ==
    /\ last.op = "sortMemosByDate"
    /\ last.order = Undefined
    /\ Len(last.memos) = 3
    /\ last.memos[1].createdAt = last.memos[2].createdAt
    /\ last.memos[1].id # last.memos[2].id
    /\ last.memos[3].createdAt > last.memos[1].createdAt
    /\ last.ret = <<last.memos[3], last.memos[1], last.memos[2]>>

----------------------------------------------------------------------------
(* Claims about concurrent commands (RaceSpec) *)

\* the stored record with this id (the first one), as a sequence
StoredRecord(id) ==
    LET i == findIndex(Stored(file), id)
    IN  IF i = 0 THEN <<>> ELSE <<Stored(file)[i]>>

\* C13: MemoCLI.update writes the whole record it built from its own read:
\* the record of the update that wrote last is the memo it had read with
\* its own change only, whatever was written in between, so of a --title
\* and a --content update that both succeed only one change can remain;
\* and an update that found its memo gets false from storage updateMemo,
\* which writes nothing, once the memo is deleted.
C13_UpdateWritesItsRead ==
    \A p \in Clients :
        /\ procs[p].latest =>
              /\ procs[p].ret = "true"
              /\ StoredRecord(procs[p].id[1])
                    = <<updateMemo(procs[p].memo[1], Commands[p].updates,
                                   procs[p].updatedMemo[1].updatedAt)>>
        /\ (procs[p].pc = "found" /\ Commands[p].command = "update") =>
              LET res == MemoStorage_updateMemo(file, procs[p].updatedMemo[1], "ok", "ok")
              IN  IF StoredRecord(procs[p].id[1]) = <<>>
                  THEN res.ret = "false" /\ res.file = file
                  ELSE res.ret = "true"
        /\ ( /\ procs[p].pc = "done" /\ Commands[p].command = "update"
             /\ procs[p].memo # <<>> /\ procs[p].ret = "false" )
           => StoredRecord(procs[p].id[1]) = <<>>

\* the --title and the --content update of the first memo have read the same
\* record and both returned true, and the stored record has the new content
\* with the old title; the third update found the second memo and returned
\* false after the delete
C13_Witness ==
    /\ \A p \in {1, 2} : /\ procs[p].pc = "done"
                         /\ procs[p].ret = "true"
                         /\ procs[p].memo = <<FirstMemo>>
    /\ StoredRecord(FirstMemo.id) # <<>>
    /\ StoredRecord(FirstMemo.id)[1].title = "T"
    /\ StoredRecord(FirstMemo.id)[1].content = "C2"
    /\ procs[3].pc = "done" /\ procs[3].ret = "true"
    /\ procs[4].pc = "done" /\ procs[4].ret = "false"
    /\ procs[4].memo = <<SecondMemo>>
    /\ StoredRecord(SecondMemo.id) = <<>>

====
